---- MODULE Spec2Model ----
(***************************************************************************)
(* A state-machine model of the browse-data front end:                     *)
(*   - the file table's paginated fetch controller, row selection and      *)
(*     batch-download button   (components/browse-data/files/FileTable)    *)
(*   - the facet/filter provider (components/browse-data/shared/           *)
(*     FilterProvider)                                                     *)
(*   - the trial table's paginated loading (browse-data/trials/TrialTable) *)
(*   - the client-side paginated and sorted file table (class FileTable)   *)
(*                                                                         *)
(* Granularity.  JavaScript runs one callback at a time, so every event    *)
(* handler, every run of an effect and every promise callback is one       *)
(* atomic step.  React runs a useEffect callback in a deferred task after  *)
(* the render whose dependencies changed, so a network callback may run    *)
(* between the render and the effect; user events are taken only when no   *)
(* effect is waiting to run.                                               *)
(*                                                                         *)
(* An optional value (undefined | v) is the sequence <<>> or <<v>>.        *)
(***************************************************************************)
EXTENDS Integers, Sequences, FiniteSets, TLC

----------------------------------------------------------------------------
(* Bounds of the model *)

\* query pages offered to onChangePage are 0..MaxPage; the URL may start at -1
MaxPage == 2
\* the filter sets the query-param store takes in the file-table specification
\* select the first 0..MaxTrialIds trial ids
MaxTrialIds == 1
\* user events wait while this many file-listing requests are unresolved
MaxInFlight == 2
\* the header keys a user clicks are the last NumClickKeys of the six
NumClickKeys == 1
\* the largest total result count a file listing reports
MaxTotal == 31
\* the rows of a displayed page a user clicks are its first NumClickRows
NumClickRows == 3
\* the user clicks "Download Filelist.tsv" at most MaxDownloads times
MaxDownloads == 2
\* a trial-id filter matches 0..MaxTrials trials
MaxTrials == 21
\* the facet selection in the query string at mount has at most MaxFacetSel
\* strings
MaxFacetSel == 2
\* the client-side file table is given 1..MaxFiles files
MaxFiles == 11

----------------------------------------------------------------------------
(* Program constants *)

\* fileQueryDefaults.page_size
page_size == 15

\* the column keys of the headers state, in order
HeaderKeys ==
    << "object_url", "trial_id", "file_ext", "data_category",
       "file_size_bytes", "uploaded_timestamp" >>

----------------------------------------------------------------------------
VARIABLES
    filters,          \* useQueryParams(filterConfig)[0]: [trial_ids, facets]
    queryPage,        \* maybeQueryPage || 0
    tablePage,        \* useState tablePage
    prevPage,         \* useState prevPage: <<>> (undefined) or <<p>>
    data,             \* useState data: <<>> (undefined) or <<files>>
    headers,          \* useState headers
    axiosCanceller,   \* useRef: <<>> or <<id of the request it can cancel>>
    requests,         \* getFiles promises not yet settled, not cancelled
    cancelled,        \* ids of cancelled getFiles promises not yet rejected
    deps,             \* the dependency values of the effect's last run
    selectedFileIds,  \* useState selectedFileIds
    newFacets,        \* useSWR data: <<>> (undefined) or <<catalogue>>
    facets,           \* useState facets: <<>> (undefined) or <<catalogue>>
    fpDeps,           \* the dependency values of the provider effect's last run
    lastOp,           \* history: the handler that ran last, [op, n]
    rehomeDue,        \* history: filters or sort changed, nothing committed since
    pruneWrites,      \* history: reconciliation writes since the last user write
    openDialog,       \* BatchDownloadButton: useState openDialog
    manifests,        \* getFilelist promises not yet settled: [id, ids]
    issued,           \* history: the number of getFilelist calls so far
    saves,            \* history: the number of filelist.tsv files saved so far
    size,             \* useSWRInfinite: the number of pages asked for
    pages,            \* useSWRInfinite data: <<>> or <<[ids, size, counts]>>
    trialTotal,       \* the number of trials matching each trial-id filter
    trialDeps,        \* the dependency values of the trial effect's last run
    loadsSince,       \* history: load-more clicks since the filter changed
    state,            \* class FileTable: this.state
    propsFiles        \* class FileTable: this.props.files

\* the state of the fetch controller
fetchVars ==
    << queryPage, tablePage, prevPage, data, axiosCanceller, requests,
       cancelled, deps >>

\* the state of the file table
tableVars == << fetchVars, headers, selectedFileIds, rehomeDue >>

\* the state of the batch-download button
downloadVars == << openDialog, manifests, issued, saves >>

\* the state of the trial table
trialVars == << size, pages, trialTotal, trialDeps, loadsSince >>

\* the state of the filter provider
providerVars == << newFacets, facets, fpDeps, pruneWrites >>

\* the state and the props of the client-side file table
legacyVars == << state, propsFiles >>

vars ==
    << filters, queryPage, tablePage, prevPage, data, headers,
       axiosCanceller, requests, cancelled, deps, selectedFileIds,
       newFacets, facets, fpDeps, lastOp, rehomeDue, pruneWrites,
       openDialog, manifests, issued, saves,
       size, pages, trialTotal, trialDeps, loadsSince, state, propsFiles >>

\* const NAME_KEY .. SIZE_KEY
NAME_KEY == "file_name"
TRIAL_ID_KEY == "trial_name"
EXPERIMENTAL_STRATEGY_KEY == "experimental_strategy"
NUMBER_OF_CASES_KEY == "number_of_samples"
DATA_FORMAT_KEY == "data_format"
SIZE_KEY == "file_size"

\* state: IFileTableState = { page: 0, rowsPerPage: 10, sortBy: NAME_KEY,
\* sortDirection: "asc" }
InitialState ==
    [ page |-> 0, rowsPerPage |-> 10, sortBy |-> NAME_KEY,
      sortDirection |-> "asc" ]

Op(name) == [op |-> name, n |-> 0]

----------------------------------------------------------------------------
(* The file table: state after construction *)

\* a string is the sequence of its characters
TrialIdPool == << << "N", "1" >>, << "N", "2" >>, << "N", "3" >> >>

\* the filter sets the store takes while the file table is observed
TableFilterSets ==
    { [trial_ids |-> SubSeq(TrialIdPool, 1, n), facets |-> << >>] :
        n \in 0 .. MaxTrialIds }

\* total result counts a listing may report: none, less than a page,
\* a little more than one page, and the largest
Totals == { 0, 10, 16, MaxTotal }

InitialHeaders ==
    [ i \in 1 .. Len(HeaderKeys) |->
        IF HeaderKeys[i] = "uploaded_timestamp"
        THEN [key |-> HeaderKeys[i], active |-> TRUE, direction |-> "desc"]
        ELSE [key |-> HeaderKeys[i], active |-> FALSE, direction |-> "none"] ]

\* headers.find(h => h.active)
SortHeaderOf(hs) ==
    LET act == { i \in 1 .. Len(hs) : hs[i].active }
    IN  IF act = {} THEN << >>
        ELSE << hs[CHOOSE i \in act : \A j \in act : i <= j] >>

sortHeader == SortHeaderOf(headers)

FileTableInit ==
    /\ filters \in TableFilterSets
    /\ queryPage \in -1 .. MaxPage
    /\ tablePage = 0
    /\ prevPage = << >>
    /\ data = << >>
    /\ headers = InitialHeaders
    /\ axiosCanceller = << >>
    /\ requests = {}
    /\ cancelled = {}
    /\ deps = << >>
    /\ selectedFileIds = << >>
    /\ lastOp = Op("mount")
    /\ rehomeDue = FALSE
    \* the filter provider is not part of this specification
    /\ newFacets = << >>
    /\ facets = << >>
    /\ fpDeps = << >>
    /\ pruneWrites = 0
    /\ openDialog = FALSE
    /\ manifests = {}
    /\ issued = 0
    /\ saves = 0
    /\ size = 1
    /\ pages = << >>
    /\ trialTotal = << >>
    /\ trialDeps = << >>
    /\ loadsSince = 0
    /\ state = InitialState
    /\ propsFiles = << >>

----------------------------------------------------------------------------
(* The fetch effect *)

\* the effect's dependency list [filters, sortHeader, queryPage]
CurrentDeps ==
    [filters |-> filters, sortHeader |-> sortHeader, queryPage |-> queryPage]

\* the effect runs after mount and after a render that changed a dependency
EffectPending == deps # << CurrentDeps >>

\* the ids of the promises not yet settled
Unsettled == { r.id : r \in requests } \cup cancelled

\* the smallest request id no unsettled promise holds
FreshId ==
    CHOOSE i \in 1 .. (Cardinality(Unsettled) + 1) :
        /\ i \notin Unsettled
        /\ \A j \in 1 .. (Cardinality(Unsettled) + 1) :
               j \notin Unsettled => i <= j

\* if (axiosCanceller.current) axiosCanceller.current.cancel(CANCEL_MESSAGE):
\* the requests the cancel call reaches (none once the promise has settled)
ToCancelNothing == {}

ToCancel ==
    IF axiosCanceller = << >> THEN {}
    ELSE { r \in requests : r.id = axiosCanceller[1] }

\* api.getFiles hands the cancel token to the HTTP layer: a cancelled
\* request settles only by rejecting with the cancellation message
Rejecting(rs) == { r.id : r \in rs }

\* getFiles(token, {page_num, ...filterParams, ...sortParams, page_size}, token)
NewRequest(id) ==
    [ id |-> id, page |-> queryPage, filters |-> filters, sort |-> sortHeader ]

\* if (queryPage === prevPage && prevPage !== 0)
IsStaleEcho == prevPage = << queryPage >> /\ prevPage # << 0 >>

\* a fetch that leaves the displayed data in place
FetchKeepsData ==
    /\ requests' = (requests \ ToCancel) \cup { NewRequest(FreshId) }
    /\ cancelled' = cancelled \cup Rejecting(ToCancel)
    /\ axiosCanceller' = << FreshId >>
    /\ lastOp' = Op("fetch")
    /\ UNCHANGED << queryPage, data >>

\* else: clear data, cancel the previous request, issue a new one
FetchBranch ==
    /\ data' = << >>
    /\ requests' = (requests \ ToCancel) \cup { NewRequest(FreshId) }
    /\ cancelled' = cancelled \cup Rejecting(ToCancel)
    /\ axiosCanceller' = << FreshId >>
    /\ lastOp' = Op("fetch")
    /\ UNCHANGED queryPage

\* a stale-echo branch that leaves the query page where it is
StaleEchoStalls ==
    /\ lastOp' = Op("echo")
    /\ UNCHANGED << queryPage, data, axiosCanceller, requests, cancelled >>

StaleEchoRefetches ==
    /\ queryPage' = 0
    /\ data' = << >>
    /\ requests' = requests \ ToCancel
    /\ cancelled' = cancelled \cup Rejecting(ToCancel)
    /\ lastOp' = Op("echo")
    /\ UNCHANGED axiosCanceller

\* setQueryPage(0), nothing else
StaleEchoBranch ==
    /\ queryPage' = 0
    /\ lastOp' = Op("echo")
    /\ UNCHANGED << data, axiosCanceller, requests, cancelled >>

ClampMissing == FetchBranch

\* else if (queryPage < 0) setQueryPage(0)
ClampBranch ==
    /\ queryPage' = 0
    /\ lastOp' = Op("clamp")
    /\ UNCHANGED << data, axiosCanceller, requests, cancelled >>

RunEffect ==
    /\ EffectPending
    /\ IF IsStaleEcho THEN StaleEchoBranch
       ELSE IF queryPage < 0 THEN ClampBranch
       ELSE FetchBranch
    /\ prevPage' = << queryPage >>
    /\ deps' = << CurrentDeps >>
    /\ UNCHANGED << filters, tablePage, headers, selectedFileIds, rehomeDue >>
    /\ UNCHANGED providerVars
    /\ UNCHANGED << downloadVars, trialVars, legacyVars >>

----------------------------------------------------------------------------
(* Settling of a file-listing request *)

\* what the server lists for request r when `total` files match
FilesFor(r, total) ==
    [ page |-> r.page, filters |-> r.filters, sort |-> r.sort,
      total |-> total ]

OutOfBoundsInclusive(page, total) == page * page_size >= total

\* queryPage * fileQueryDefaults.page_size > files.meta.total
OutOfBounds(page, total) == page * page_size > total

\* .then(files => ...): reset the query page, or commit page and data
\* a callback whose commit keeps only the selected ids the new listing shows
ThenCallbackPrunesSelection(r, files) ==
    IF r.page * page_size > files.total
    THEN /\ queryPage' = 0
         /\ lastOp' = Op("reset")
         /\ UNCHANGED << tablePage, data, rehomeDue, selectedFileIds >>
    ELSE /\ tablePage' = r.page
         /\ data' = << files >>
         /\ lastOp' = Op("commit")
         /\ rehomeDue' = FALSE
         /\ selectedFileIds' =
                SelectSeq(selectedFileIds,
                          LAMBDA x : /\ files.page * page_size < x
                                     /\ x <= (files.page + 1) * page_size
                                     /\ x <= files.total)
         /\ UNCHANGED queryPage

ThenCallback(r, files) ==
    IF OutOfBounds(r.page, files.total)
    THEN /\ queryPage' = 0
         /\ lastOp' = Op("reset")
         /\ UNCHANGED << tablePage, data, rehomeDue, selectedFileIds >>
    ELSE /\ tablePage' = r.page
         /\ data' = << files >>
         /\ lastOp' = Op("commit")
         /\ rehomeDue' = FALSE
         /\ UNCHANGED << queryPage, selectedFileIds >>

Succeed(r, total) ==
    /\ r \in requests
    /\ ThenCallback(r, FilesFor(r, total))
    /\ requests' = requests \ { r }
    /\ UNCHANGED << filters, prevPage, headers, axiosCanceller, cancelled,
                    deps >>
    /\ UNCHANGED providerVars
    /\ UNCHANGED << downloadVars, trialVars, legacyVars >>

\* const CANCEL_MESSAGE
CANCEL_MESSAGE == "cancelling stale filter request"

\* the messages of failures other than a cancellation
FailureMessages == { "Network Error", "Request failed with status code 500" }

\* a handler that logs whatever the message is
CatchLogsAll(message) ==
    /\ lastOp' = Op("error")
    /\ UNCHANGED << queryPage, tablePage, data >>

\* .catch(err => { if (err.message !== CANCEL_MESSAGE) console.error(..) }):
\* lastOp "error" stands for the call of console.error
CatchCallback(message) ==
    /\ lastOp' = IF message # CANCEL_MESSAGE THEN Op("error")
                 ELSE Op("cancelled")
    /\ UNCHANGED << queryPage, tablePage, data >>

\* a request that was not cancelled rejects
Fail(r) ==
    /\ r \in requests
    /\ requests' = requests \ { r }
    /\ \E message \in FailureMessages : CatchCallback(message)
    /\ UNCHANGED << filters, prevPage, headers, axiosCanceller, cancelled,
                    deps, selectedFileIds, rehomeDue >>
    /\ UNCHANGED providerVars
    /\ UNCHANGED << downloadVars, trialVars, legacyVars >>

\* a cancelled request rejects with the message given to cancel()
RejectCancelled(id) ==
    /\ id \in cancelled
    /\ cancelled' = cancelled \ { id }
    /\ CatchCallback(CANCEL_MESSAGE)
    /\ UNCHANGED << filters, prevPage, headers, axiosCanceller, requests,
                    deps, selectedFileIds, rehomeDue >>
    /\ UNCHANGED providerVars
    /\ UNCHANGED << downloadVars, trialVars, legacyVars >>

----------------------------------------------------------------------------
(* User events of the file table *)

\* an event handler runs once the waiting effect has run
UserMayAct == ~ EffectPending /\ Cardinality(Unsettled) < MaxInFlight

\* the filter provider writes another filter set to the query-param store
FiltersChange(f) ==
    /\ UserMayAct
    /\ f # filters
    /\ filters' = f
    /\ lastOp' = Op("filters")
    /\ rehomeDue' = TRUE
    /\ UNCHANGED << fetchVars, headers, selectedFileIds >>
    /\ UNCHANGED providerVars
    /\ UNCHANGED << downloadVars, trialVars, legacyVars >>

\* onChangePage={p => setQueryPage(p)}
OnChangePage(p) ==
    /\ UserMayAct
    /\ p # queryPage
    /\ queryPage' = p
    /\ lastOp' = Op("page")
    /\ UNCHANGED << filters, tablePage, prevPage, data, headers,
                    axiosCanceller, requests, cancelled, deps,
                    selectedFileIds, rehomeDue >>
    /\ UNCHANGED providerVars
    /\ UNCHANGED << downloadVars, trialVars, legacyVars >>

ClickKeys ==
    { HeaderKeys[i] :
        i \in (Len(HeaderKeys) - NumClickKeys + 1) .. Len(HeaderKeys) }

\* a click that leaves the other headers as they are
ClickedHeadersKeepOthers(hs, key) ==
    [ i \in 1 .. Len(hs) |->
        IF hs[i].key = key
        THEN IF hs[i].active
             THEN [hs[i] EXCEPT !.direction =
                        IF hs[i].direction = "desc" THEN "asc" ELSE "desc"]
             ELSE [hs[i] EXCEPT !.active = TRUE, !.direction = "desc"]
        ELSE hs[i] ]

\* headers.map(h => ...) of onClickHeader
ClickedHeaders(hs, key) ==
    [ i \in 1 .. Len(hs) |->
        IF hs[i].key = key
        THEN IF hs[i].active
             THEN [hs[i] EXCEPT !.direction =
                        IF hs[i].direction = "desc" THEN "asc" ELSE "desc"]
             ELSE [hs[i] EXCEPT !.active = TRUE, !.direction = "desc"]
        ELSE [hs[i] EXCEPT !.active = FALSE] ]

OnClickHeader(key) ==
    /\ UserMayAct
    /\ headers' = ClickedHeaders(headers, key)
    /\ lastOp' = Op("header")
    /\ rehomeDue' = TRUE
    /\ UNCHANGED << filters, fetchVars, selectedFileIds >>
    /\ UNCHANGED providerVars
    /\ UNCHANGED << downloadVars, trialVars, legacyVars >>

----------------------------------------------------------------------------
(* Row selection and the batch-download button *)

\* the ids of the files a listing of `total` files shows on `page`
RowIds(page, total) ==
    { i \in 1 .. total : page * page_size < i /\ i <= (page + 1) * page_size }

\* data && data.data: the rows the table shows
DisplayedRows ==
    IF data = << >> THEN {} ELSE RowIds(data[1].page, data[1].total)

ClickableRows ==
    { i \in DisplayedRows : i <= data[1].page * page_size + NumClickRows }

Includes(ids, id) == \E i \in 1 .. Len(ids) : ids[i] = id

\* ids.filter(x => x !== id)
Without(ids, id) == SelectSeq(ids, LAMBDA x : x # id)

\* a click that appends the id whether it is selected or not
NewSelectedAlwaysAppended(ids, id) == Append(ids, id)

\* const newSelectedFileIds = selectedFileIds.includes(file.id) ? ... : ...
NewSelectedFileIds(ids, id) ==
    IF Includes(ids, id) THEN Without(ids, id) ELSE Append(ids, id)

\* onClickRow: drop the id if it is selected, append it otherwise;
\* lastOp.n is the size of the selection before the click
OnClickRow(id) ==
    /\ id \in ClickableRows
    /\ selectedFileIds' = NewSelectedFileIds(selectedFileIds, id)
    /\ lastOp' = [op |-> "row", n |-> Len(selectedFileIds)]
    /\ UNCHANGED << filters, fetchVars, headers, rehomeDue >>
    /\ UNCHANGED providerVars
    /\ UNCHANGED << downloadVars, trialVars, legacyVars >>

\* disabled={ids.length === 0}
DownloadDisabledLax == Len(selectedFileIds) <= 1

DownloadDisabled == Len(selectedFileIds) = 0

\* {ids.length > 0 && <Button ...>Clear Selection</Button>}
ClearShown == Len(selectedFileIds) > 0

ClearedDropsLast == SubSeq(selectedFileIds, 1, Len(selectedFileIds) - 1)

\* clearIds={() => setSelectedFileIds([])}
Cleared == << >>

ClearIds ==
    /\ ClearShown
    /\ selectedFileIds' = Cleared
    /\ lastOp' = [op |-> "clearIds", n |-> Len(selectedFileIds)]
    /\ UNCHANGED << filters, fetchVars, headers, rehomeDue >>
    /\ UNCHANGED providerVars
    /\ UNCHANGED << downloadVars, trialVars, legacyVars >>

\* the download button's onClick={() => setOpenDialog(true)}
OpenDialog ==
    /\ ~ DownloadDisabled
    /\ ~ openDialog
    /\ openDialog' = TRUE
    /\ lastOp' = Op("dialog")
    /\ UNCHANGED << filters, tableVars, providerVars, trialVars, legacyVars,
                    manifests, issued, saves >>

\* Cancel's onClick and the dialog's onClose: setOpenDialog(false)
CloseDialog ==
    /\ openDialog
    /\ openDialog' = FALSE
    /\ lastOp' = Op("close")
    /\ UNCHANGED << filters, tableVars, providerVars, trialVars, legacyVars,
                    manifests, issued, saves >>

\* getFilelist(token, ids)
NewManifest == [id |-> issued + 1, ids |-> selectedFileIds]

\* "Download Filelist.tsv" onClick: getFilelist(token, ids).then(...)
ClickDownloadFilelist ==
    /\ openDialog
    /\ issued < MaxDownloads
    /\ manifests' = manifests \cup { NewManifest }
    /\ issued' = issued + 1
    /\ lastOp' = [op |-> "download", n |-> Len(selectedFileIds)]
    /\ UNCHANGED << filters, tableVars, providerVars, trialVars, legacyVars,
                    openDialog, saves >>

\* .then(blob => ...): an anchor with download = "filelist.tsv" is clicked
ManifestSucceeds(m) ==
    /\ m \in manifests
    /\ manifests' = manifests \ { m }
    /\ saves' = saves + 1
    /\ lastOp' = [op |-> "saved", n |-> Len(m.ids)]
    /\ UNCHANGED << filters, tableVars, providerVars, trialVars, legacyVars,
                    openDialog, issued >>

\* a rejection that asks for the file list again
ManifestRejectedRetries(m) ==
    /\ manifests' = (manifests \ { m }) \cup { [m EXCEPT !.id = issued + 1] }
    /\ issued' = issued + 1
    /\ lastOp' = Op("manifest-error")
    /\ UNCHANGED saves

\* the promise has no rejection handler: nothing runs
ManifestRejected(m) ==
    /\ manifests' = manifests \ { m }
    /\ lastOp' = Op("manifest-error")
    /\ UNCHANGED << issued, saves >>

ManifestFails(m) ==
    /\ m \in manifests
    /\ ManifestRejected(m)
    /\ UNCHANGED << filters, tableVars, providerVars, trialVars, legacyVars,
                    openDialog >>

----------------------------------------------------------------------------
(* The specification of the fetch controller *)

FileTableNext ==
    \/ RunEffect
    \/ \E r \in requests, total \in Totals : Succeed(r, total)
    \/ \E r \in requests : Fail(r)
    \/ \E id \in cancelled : RejectCancelled(id)
    \/ \E f \in TableFilterSets : FiltersChange(f)
    \/ \E p \in 0 .. MaxPage : OnChangePage(p)
    \/ \E key \in ClickKeys : OnClickHeader(key)

Spec == FileTableInit /\ [][FileTableNext]_vars

(* The specification of the fetch controller when every request that is *)
(* not cancelled succeeds: a waiting effect run, a response and the     *)
(* rejection of a cancelled request are each taken in the end           *)

SettlingNext ==
    \/ RunEffect
    \/ \E r \in requests, total \in Totals : Succeed(r, total)
    \/ \E id \in cancelled : RejectCancelled(id)
    \/ \E f \in TableFilterSets : FiltersChange(f)
    \/ \E p \in 0 .. MaxPage : OnChangePage(p)
    \/ \E key \in ClickKeys : OnClickHeader(key)

SettlingSpec ==
    /\ FileTableInit
    /\ [][SettlingNext]_vars
    /\ WF_vars(RunEffect)
    /\ WF_vars(\E r \in requests, total \in Totals : Succeed(r, total))
    /\ WF_vars(\E id \in cancelled : RejectCancelled(id))

(* The specification of row selection: the table loads its first listing *)
(* and the user selects rows and clears the selection                    *)

SelectionNext ==
    \/ RunEffect
    \/ \E r \in requests, total \in Totals : Succeed(r, total)
    \/ \E id \in 1 .. (MaxPage + 1) * page_size : OnClickRow(id)
    \/ ClearIds

SelectionSpec == FileTableInit /\ [][SelectionNext]_vars

(* The specification of sorting: the user clicks any of the headers, the  *)
(* effect refetches and the listings arrive                              *)

AllKeys == { HeaderKeys[i] : i \in 1 .. Len(HeaderKeys) }

\* the file table after construction, no filter chosen and no page in the
\* URL
HeaderInit ==
    /\ filters = [trial_ids |-> << >>, facets |-> << >>]
    /\ queryPage = 0
    /\ tablePage = 0
    /\ prevPage = << >>
    /\ data = << >>
    /\ headers = InitialHeaders
    /\ axiosCanceller = << >>
    /\ requests = {}
    /\ cancelled = {}
    /\ deps = << >>
    /\ selectedFileIds = << >>
    /\ lastOp = Op("mount")
    /\ rehomeDue = FALSE
    /\ newFacets = << >>
    /\ facets = << >>
    /\ fpDeps = << >>
    /\ pruneWrites = 0
    /\ openDialog = FALSE
    /\ manifests = {}
    /\ issued = 0
    /\ saves = 0
    /\ size = 1
    /\ pages = << >>
    /\ trialTotal = << >>
    /\ trialDeps = << >>
    /\ loadsSince = 0
    /\ state = InitialState
    /\ propsFiles = << >>

HeaderNext ==
    \/ RunEffect
    \/ \E r \in requests : Succeed(r, MaxTotal)
    \/ \E id \in cancelled : RejectCancelled(id)
    \/ \E key \in AllKeys : OnClickHeader(key)

HeaderSpec == HeaderInit /\ [][HeaderNext]_vars

(* The specification of the selection next to the fetch controller: the  *)
(* user changes filters, sort and page, requests succeed and fail, and   *)
(* the user clicks the first row of a page, the table calls the          *)
(* selection setter, and the user clears the selection                   *)

\* the first row of each of the first two pages
FrameRows == { 1, page_size + 1 }

\* the pages the user turns to: the first two
FramePages == { 0, 1 }

\* total result counts: less than a page, and the largest
FrameTotals == { 10, MaxTotal }

\* the lists the table component may hand to the selection setter
SetterArgs ==
    LET pairs == { p \in FrameRows \X FrameRows : p[1] # p[2] }
    IN  { << >> } \cup { << i >> : i \in FrameRows } \cup pairs

\* setSelectedRowIds={setSelectedFileIds}: the table component replaces
\* the selection by a list of its own choosing
SetSelectedRowIds(ids) ==
    /\ data # << >>
    /\ ids # selectedFileIds
    /\ selectedFileIds' = ids
    /\ lastOp' = [op |-> "setter", n |-> Len(selectedFileIds)]
    /\ UNCHANGED << filters, fetchVars, headers, rehomeDue >>
    /\ UNCHANGED providerVars
    /\ UNCHANGED << downloadVars, trialVars, legacyVars >>

FrameNext ==
    \/ RunEffect
    \/ \E r \in requests, total \in FrameTotals : Succeed(r, total)
    \/ \E r \in requests : Fail(r)
    \/ \E id \in cancelled : RejectCancelled(id)
    \/ \E f \in TableFilterSets : FiltersChange(f)
    \/ \E p \in FramePages : OnChangePage(p)
    \/ \E key \in ClickKeys : OnClickHeader(key)
    \/ \E id \in FrameRows : OnClickRow(id)
    \/ \E ids \in SetterArgs : SetSelectedRowIds(ids)
    \/ ClearIds

FrameSpec == HeaderInit /\ [][FrameNext]_vars

(* The specification of the batch download: the table loads a listing,   *)
(* the user selects rows, opens the dialog (which covers the table) and  *)
(* asks for file lists                                                   *)

\* the rows the user picks from for a download
DownloadRows == { 1, 2 }

DownloadNext ==
    \/ RunEffect
    \/ \E r \in requests : Succeed(r, MaxTotal)
    \/ \E id \in DownloadRows : ~ openDialog /\ OnClickRow(id)
    \/ ~ openDialog /\ ClearIds
    \/ OpenDialog
    \/ CloseDialog
    \/ ClickDownloadFilelist
    \/ \E m \in manifests : ManifestSucceeds(m)
    \/ \E m \in manifests : ManifestFails(m)

DownloadSpec == HeaderInit /\ [][DownloadNext]_vars

----------------------------------------------------------------------------
(* Strings of the filter store: a string is the sequence of its characters *)

\* export const ARRAY_PARAM_DELIM = "|"
ARRAY_PARAM_DELIM == "|"

RECURSIVE SplitFrom(_, _, _)
\* the pieces of str from position i on, cur being the piece under way
SplitFrom(str, cur, i) ==
    IF i > Len(str) THEN << cur >>
    ELSE IF str[i] = ARRAY_PARAM_DELIM
         THEN << cur >> \o SplitFrom(str, << >>, i + 1)
         ELSE SplitFrom(str, Append(cur, str[i]), i + 1)

\* facetString.split("|")
Split(str) == SplitFrom(str, << >>, 1)

RECURSIVE Join(_)
\* parts.join(ARRAY_PARAM_DELIM)
Join(parts) ==
    IF Len(parts) = 0 THEN << >>
    ELSE IF Len(parts) = 1 THEN parts[1]
         ELSE parts[1] \o << ARRAY_PARAM_DELIM >> \o Join(Tail(parts))

\* const [a, b, c] = array: the i-th element, or undefined
ElementAt(parts, i) == IF i <= Len(parts) THEN << parts[i] >> ELSE << >>

\* str.startsWith(prefix)
StartsWith(str, prefix) ==
    /\ Len(prefix) <= Len(str)
    /\ SubSeq(str, 1, Len(prefix)) = prefix

RECURSIVE Uniq(_)
\* lodash uniq: the first occurrence of each value, in order
Uniq(xs) ==
    IF Len(xs) = 0 THEN << >>
    ELSE LET front == Uniq(SubSeq(xs, 1, Len(xs) - 1))
             last == xs[Len(xs)]
         IN  IF Includes(front, last) THEN front ELSE Append(front, last)

----------------------------------------------------------------------------
(* Facet catalogues (IFacets) *)

\* the category, facet and label names the catalogues are built from
FlatCat == << "P" >>
NestedCat == << "A" >>
UnknownCat == << "Z" >>
FlatLabel == << "x" >>
Family == << "f" >>
SubLabels == { << "s" >>, << "t" >> }

\* the facet strings a stored filter set is drawn from
FacetStrings ==
    { Join(<< FlatCat, FlatLabel >>), Join(<< UnknownCat, << "q" >> >>) }
        \cup { Join(<< NestedCat, Family, l >>) : l \in SubLabels }

\* the counts a catalogue reports
Counts == { 0, 2 }

\* IFacetInfo
Info(label, count) == [label |-> label, count |-> count]

\* a category listed as IFacetInfo[]
ArrayEntry(items) == [isArray |-> TRUE, items |-> items, dict |-> << >>]

\* a category listed as Dictionary<IFacetInfo[]>
DictEntry(dict) == [isArray |-> FALSE, items |-> << >>, dict |-> dict]

\* the ways the flat category appears in a catalogue: not at all (<<>>), or
\* with its label at each count
FlatShapes ==
    { << >> } \cup { << ArrayEntry(<< Info(FlatLabel, c) >>) >> : c \in Counts }

\* the ways the nested category appears: not at all, without the family,
\* with one sub-facet of the family, or with both sub-facets at each count
NestedShapes ==
    { << >>, << DictEntry(<< >>) >>,
      << DictEntry([k \in { Family } |-> << Info(<< "s" >>, 2) >>]) >> } \cup
    { << DictEntry([k \in { Family } |->
            << Info(<< "s" >>, c1), Info(<< "t" >>, c2) >>]) >> :
        c1 \in Counts, c2 \in Counts }

\* the catalogue listing the two categories in the given shapes
CatalogueOf(flat, nested) ==
    [ trial_ids |-> << Info(TrialIdPool[1], 2) >>,
      facets |->
        [ cat \in (IF flat = << >> THEN {} ELSE { FlatCat }) \cup
                  (IF nested = << >> THEN {} ELSE { NestedCat }) |->
            IF cat = FlatCat THEN flat[1] ELSE nested[1] ] ]

Catalogues ==
    { CatalogueOf(flat, nested) :
        flat \in FlatShapes, nested \in NestedShapes }

----------------------------------------------------------------------------
(* The filter provider: state after construction *)

RECURSIVE DistinctSeqs(_, _)
\* the sequences of at most n distinct members of S
DistinctSeqs(S, n) ==
    IF n = 0 THEN { << >> }
    ELSE LET shorter == DistinctSeqs(S, n - 1)
         IN  shorter \cup
             UNION { { Append(q, x) : x \in { y \in S : ~ Includes(q, y) } } :
                     q \in shorter }

\* the filter sets the query string holds when the provider mounts
ProviderFilterSets ==
    { [trial_ids |-> ids, facets |-> fs] :
        ids \in { << >>, << TrialIdPool[1] >> },
        fs \in DistinctSeqs(FacetStrings, MaxFacetSel) }

\* useQueryParams(filterConfig), useSWR not yet answered, useState()
ProviderInit ==
    /\ filters \in ProviderFilterSets
    /\ newFacets = << >>
    /\ facets = << >>
    /\ fpDeps = << >>
    /\ pruneWrites = 0
    /\ openDialog = FALSE
    /\ manifests = {}
    /\ issued = 0
    /\ saves = 0
    /\ size = 1
    /\ pages = << >>
    /\ trialTotal = << >>
    /\ trialDeps = << >>
    /\ loadsSince = 0
    /\ state = InitialState
    /\ propsFiles = << >>
    /\ lastOp = Op("mount")
    \* the file table stays in its state after construction with page 0
    /\ queryPage = 0
    /\ tablePage = 0
    /\ prevPage = << >>
    /\ data = << >>
    /\ headers = InitialHeaders
    /\ axiosCanceller = << >>
    /\ requests = {}
    /\ cancelled = {}
    /\ deps = << >>
    /\ selectedFileIds = << >>
    /\ rehomeDue = FALSE

----------------------------------------------------------------------------
(* The filter provider: the reconciliation effect *)

\* newFacets.facets[cat][facet]: undefined when the category is not listed,
\* when it is listed as an array (a label is no index of an array) or when
\* the dictionary has no such key
FacetEntry(nf, cat, facet) ==
    IF cat \notin DOMAIN nf.facets THEN << >>
    ELSE LET entry == nf.facets[cat]
         IN  IF entry.isArray \/ facet = << >> THEN << >>
             ELSE IF facet[1] \in DOMAIN entry.dict
                  THEN << entry.dict[facet[1]] >>
                  ELSE << >>

\* newFacets.facets[cat][facet].count > 0 where the entry is an IFacetInfo[]:
\* an array has no count, and undefined > 0 is false
EntryCountPositive(infos) == FALSE

\* the callback of filters.facets.filter
KeepFacet(nf, facetString) ==
    LET parts == Split(facetString)
        cat == parts[1]
        facet == ElementAt(parts, 2)
        subfacet == ElementAt(parts, 3)
        entry == FacetEntry(nf, cat, facet)
    IN  IF entry # << >>
        THEN \/ EntryCountPositive(entry[1])
             \/ \E i \in 1 .. Len(entry[1]) :
                    /\ << entry[1][i].label >> = subfacet
                    /\ entry[1][i].count > 0
        ELSE TRUE

\* a pruning that keeps the same strings but writes them in reverse order
PrunedReversed(nf, selected) ==
    LET kept == SelectSeq(selected, LAMBDA f : KeepFacet(nf, f))
    IN  [ i \in 1 .. Len(kept) |-> kept[Len(kept) + 1 - i] ]

\* filters.facets?.filter(facetString => ...)
Pruned(nf, selected) == SelectSeq(selected, LAMBDA f : KeepFacet(nf, f))

\* a write that prunes the facets and lets go of the trial ids
ReconciledWithoutTrialIds(nf) ==
    [ trial_ids |-> << >>, facets |-> Pruned(nf, filters.facets) ]

\* the argument of setFilters in the effect
ReconciledFilters(nf) ==
    [ trial_ids |-> filters.trial_ids,
      facets |-> Pruned(nf, filters.facets) ]

\* the values of the effect's dependency list [filters, newFacets, setFilters]
ProviderDeps == [filters |-> filters, newFacets |-> newFacets]

ProviderEffectPending == fpDeps # << ProviderDeps >>

\* useSWR in the render after its key (the filters) changed: the answer for
\* the new key is not there yet, or the earlier answer is still returned
SwrAfterKeyChange == { newFacets, << >> }

\* React.useEffect(() => { if (newFacets) { setFacets(..); setFilters(..) } })
ReconcileEffect ==
    /\ ProviderEffectPending
    /\ fpDeps' = << ProviderDeps >>
    /\ IF newFacets = << >>
       THEN /\ lastOp' = Op("reconcile:skip")
            /\ UNCHANGED << filters, facets, newFacets, pruneWrites >>
       ELSE /\ facets' = newFacets
            /\ filters' = ReconciledFilters(newFacets[1])
            /\ lastOp' =
                  [ op |-> "reconcile",
                    n |-> Len(filters.facets) - Len(filters'.facets) ]
            /\ IF filters' = filters
               THEN UNCHANGED << newFacets, pruneWrites >>
               ELSE /\ newFacets' \in SwrAfterKeyChange
                    /\ pruneWrites' = pruneWrites + 1
    /\ UNCHANGED << tableVars, downloadVars, trialVars, legacyVars >>

\* useSWR answers with a catalogue (first load, new key or revalidation)
CatalogueArrives(c) ==
    /\ newFacets # << c >>
    /\ newFacets' = << c >>
    /\ lastOp' = Op("catalogue")
    /\ UNCHANGED << filters, facets, fpDeps, pruneWrites, tableVars,
                    downloadVars, trialVars, legacyVars >>

----------------------------------------------------------------------------
(* The filter provider: updateFilters *)

\* an event handler runs once the waiting provider effect has run
ProviderUserMayAct == ~ ProviderEffectPending

\* a string argument and an array argument of updateFilters(k)
StringArg(str) == [isArray |-> FALSE, str |-> str, parts |-> << >>]
ArrayArg(parts) == [isArray |-> TRUE, str |-> << >>, parts |-> parts]

\* toggleFilter(k, v): the updated values
Toggled(currentValues, v) ==
    IF Includes(currentValues, v)
    THEN Without(currentValues, v)
    ELSE Append(currentValues, v)

\* Array.isArray(facets[k][category])
IsArrayCategory(c, category) ==
    /\ category # << >>
    /\ category[1] \in DOMAIN c.facets
    /\ c.facets[category[1]].isArray

\* the family branch of updateFilters: the new values of filters[k]
FamilyToggled(c, keyFilters, category, facet) ==
    LET facetFamily == Join(<< category, facet >>)
        infos == c.facets[category].dict[facet]
        positive == SelectSeq(infos, LAMBDA f : f.count > 0)
        facetsInFamily ==
            [ i \in 1 .. Len(positive) |->
                Join(<< facetFamily, positive[i].label >>) ]
        inFamily == SelectSeq(keyFilters, LAMBDA f : StartsWith(f, facetFamily))
        hasAllFilters == Len(inFamily) = Len(facetsInFamily)
    IN  IF hasAllFilters
        THEN SelectSeq(keyFilters, LAMBDA f : ~ StartsWith(f, facetFamily))
        ELSE Uniq(keyFilters \o facetsInFamily)

\* the values updateFilters(k)(v) writes under key k
UpdatedValues(c, k, v) ==
    IF v.isArray
    THEN LET category == ElementAt(v.parts, 1)
             facet == ElementAt(v.parts, 2)
             subfacet == ElementAt(v.parts, 3)
         IN  IF subfacet # << >> \/ IsArrayCategory(c, category)
             THEN Toggled(filters[k], Join(v.parts))
             ELSE FamilyToggled(c, filters[k], category[1], facet[1])
    ELSE Toggled(filters[k], v.str)

\* updateFilters that lets string toggles through before a catalogue is
\* on display
UpdateFiltersStringsUnguarded(k, v) ==
    /\ ProviderUserMayAct
    /\ IF facets = << >> /\ v.isArray
       THEN /\ lastOp' = Op("update:skip")
            /\ UNCHANGED << filters, newFacets, pruneWrites >>
       ELSE /\ filters' =
                  [filters EXCEPT ![k] =
                      IF facets = << >> THEN Toggled(filters[k], v.str)
                      ELSE UpdatedValues(facets[1], k, v)]
            /\ lastOp' = Op("update")
            /\ IF filters' = filters
               THEN UNCHANGED << newFacets, pruneWrites >>
               ELSE /\ newFacets' \in SwrAfterKeyChange
                    /\ pruneWrites' = 0
    /\ UNCHANGED << facets, fpDeps, tableVars, downloadVars, trialVars,
                    legacyVars >>

\* updateFilters(k)(v)
UpdateFilters(k, v) ==
    /\ ProviderUserMayAct
    /\ IF facets = << >>
       THEN /\ lastOp' = Op("update:skip")
            /\ UNCHANGED << filters, newFacets, pruneWrites >>
       ELSE /\ filters' = [filters EXCEPT ![k] = UpdatedValues(facets[1], k, v)]
            /\ lastOp' = Op("update")
            /\ IF filters' = filters
               THEN UNCHANGED << newFacets, pruneWrites >>
               ELSE /\ newFacets' \in SwrAfterKeyChange
                    /\ pruneWrites' = 0
    /\ UNCHANGED << facets, fpDeps, tableVars, downloadVars, trialVars,
                    legacyVars >>

\* the leaf checkboxes of a catalogue: [category, facet] for each item of an
\* array category, [category, facet, subfacet] for each item of a family
LeafArgs(c) ==
    UNION { { ArrayArg(<< cat, c.facets[cat].items[i].label >>) :
                i \in 1 .. Len(c.facets[cat].items) } :
            cat \in { k \in DOMAIN c.facets : c.facets[k].isArray } }
    \cup
    UNION { UNION { { ArrayArg(<< cat, fam, c.facets[cat].dict[fam][i].label >>) :
                        i \in 1 .. Len(c.facets[cat].dict[fam]) } :
                    fam \in DOMAIN c.facets[cat].dict } :
            cat \in { k \in DOMAIN c.facets : ~ c.facets[k].isArray } }

\* the family checkboxes of a catalogue: [category, facet]
FamilyArgs(c) ==
    UNION { { ArrayArg(<< cat, fam >>) : fam \in DOMAIN c.facets[cat].dict } :
            cat \in { k \in DOMAIN c.facets : ~ c.facets[k].isArray } }

\* the trial-id checkboxes of a catalogue
TrialIdArgs(c) ==
    { StringArg(c.trial_ids[i].label) : i \in 1 .. Len(c.trial_ids) }

\* the catalogue on display, if any
Displayed == IF facets = << >> THEN {} ELSE { facets[1] }

----------------------------------------------------------------------------
(* The specification of reconciliation: catalogues arrive and the effect *)
(* runs, with no user event                                              *)

ReconcileNext ==
    \/ \E c \in Catalogues : CatalogueArrives(c)
    \/ ReconcileEffect

ReconcileSpec == ProviderInit /\ [][ReconcileNext]_vars

(* The specification of the filter provider with its user events *)

FilterNext ==
    \/ \E c \in Catalogues : CatalogueArrives(c)
    \/ ReconcileEffect
    \/ \E c \in Displayed : \E v \in LeafArgs(c) : UpdateFilters("facets", v)
    \/ \E c \in Displayed : \E v \in FamilyArgs(c) : UpdateFilters("facets", v)
    \/ \E c \in Displayed : \E v \in TrialIdArgs(c) : UpdateFilters("trial_ids", v)

FilterSpec == ProviderInit /\ [][FilterNext]_vars

(* The specification of family toggles: the category has two families,   *)
(* the name of one beginning with the name of the other                  *)

Family2 == << "f", "2" >>

\* catalogues listing both families of the nested category
FamilyCatalogues ==
    { [ trial_ids |-> << Info(TrialIdPool[1], 2) >>,
        facets |-> [ cat \in { NestedCat } |->
            DictEntry([ k \in { Family, Family2 } |->
                IF k = Family
                THEN << Info(<< "s" >>, 2), Info(<< "t" >>, c) >>
                ELSE << Info(<< "s" >>, 2) >> ]) ] ] :
      c \in Counts }

FamilyStrings ==
    { Join(<< NestedCat, Family, << "s" >> >>),
      Join(<< NestedCat, Family, << "t" >> >>),
      Join(<< NestedCat, Family2, << "s" >> >>) }

\* the provider mounts with a selection out of the two families
FamilyInit ==
    /\ filters \in { [trial_ids |-> ids, facets |-> fs] :
                        ids \in { << >>, << TrialIdPool[1] >> },
                        fs \in DistinctSeqs(FamilyStrings, MaxFacetSel) }
    /\ newFacets = << >>
    /\ facets = << >>
    /\ fpDeps = << >>
    /\ pruneWrites = 0
    /\ openDialog = FALSE
    /\ manifests = {}
    /\ issued = 0
    /\ saves = 0
    /\ size = 1
    /\ pages = << >>
    /\ trialTotal = << >>
    /\ trialDeps = << >>
    /\ loadsSince = 0
    /\ state = InitialState
    /\ propsFiles = << >>
    /\ lastOp = Op("mount")
    /\ queryPage = 0
    /\ tablePage = 0
    /\ prevPage = << >>
    /\ data = << >>
    /\ headers = InitialHeaders
    /\ axiosCanceller = << >>
    /\ requests = {}
    /\ cancelled = {}
    /\ deps = << >>
    /\ selectedFileIds = << >>
    /\ rehomeDue = FALSE

FamilyNext ==
    \/ \E c \in FamilyCatalogues : CatalogueArrives(c)
    \/ ReconcileEffect
    \/ \E c \in Displayed : \E v \in FamilyArgs(c) : UpdateFilters("facets", v)

FamilySpec == FamilyInit /\ [][FamilyNext]_vars

----------------------------------------------------------------------------
(* The filter provider: hasFilters and clearFilters *)

\* Object.keys(filters), Object.values(filters): the keys of filterConfig
FilterKeys == << "trial_ids", "facets" >>

\* a flag that looks at the facet strings only
HasFiltersFacetsOnly == Len(filters.facets) > 0

\* Object.values(filters).filter(fs => fs && fs.length > 0).length > 0
hasFilters ==
    LET values == [ i \in 1 .. Len(FilterKeys) |-> filters[FilterKeys[i]] ]
        kept == SelectSeq(values, LAMBDA fs : fs # << >> /\ Len(fs) > 0)
    IN  Len(kept) > 0

\* a reduce that leaves the trial ids in place
ClearedFiltersKeepTrialIds == [filters EXCEPT !.facets = << >>]

RECURSIVE ClearedUpTo(_)
\* Object.keys(filters).reduce((f, k) => ({ ...f, [k]: undefined }), {}),
\* over the first n keys
ClearedUpTo(n) ==
    IF n = 0 THEN << >>
    ELSE LET f == ClearedUpTo(n - 1)
         IN  [ k \in (DOMAIN f) \cup { FilterKeys[n] } |-> << >> ]

\* the changes setFilters(clearedFilters) merges into the query string
clearedFilters == ClearedUpTo(Len(FilterKeys))

\* setFilters(changes): the keys named by the changes are replaced, the
\* others are kept
Merged(changes) ==
    [ k \in DOMAIN filters |->
        IF k \in DOMAIN changes THEN changes[k] ELSE filters[k] ]

\* clearFilters(); lastOp.n is the number of filter values before the call
ClearFilters ==
    /\ ProviderUserMayAct
    /\ filters' = Merged(clearedFilters)
    /\ lastOp' = [ op |-> "clear",
                   n |-> Len(filters.trial_ids) + Len(filters.facets) ]
    /\ IF filters' = filters
       THEN UNCHANGED << newFacets, pruneWrites >>
       ELSE /\ newFacets' \in SwrAfterKeyChange
            /\ pruneWrites' = 0
    /\ UNCHANGED << facets, fpDeps, tableVars, downloadVars, trialVars,
                    legacyVars >>

(* The specification of clearing: the provider mounts on any page of the *)
(* listing, catalogues arrive, the user toggles trial ids and clears     *)

ClearInit ==
    /\ filters \in ProviderFilterSets
    /\ newFacets = << >>
    /\ facets = << >>
    /\ fpDeps = << >>
    /\ pruneWrites = 0
    /\ openDialog = FALSE
    /\ manifests = {}
    /\ issued = 0
    /\ saves = 0
    /\ size = 1
    /\ pages = << >>
    /\ trialTotal = << >>
    /\ trialDeps = << >>
    /\ loadsSince = 0
    /\ state = InitialState
    /\ propsFiles = << >>
    /\ lastOp = Op("mount")
    \* the page parameter of the URL the provider mounts on
    /\ queryPage \in 0 .. MaxPage
    /\ tablePage = 0
    /\ prevPage = << >>
    /\ data = << >>
    /\ headers = InitialHeaders
    /\ axiosCanceller = << >>
    /\ requests = {}
    /\ cancelled = {}
    /\ deps = << >>
    /\ selectedFileIds = << >>
    /\ rehomeDue = FALSE

ClearNext ==
    \/ \E c \in Catalogues : CatalogueArrives(c)
    \/ ReconcileEffect
    \/ \E c \in Displayed : \E v \in TrialIdArgs(c) : UpdateFilters("trial_ids", v)
    \/ ClearFilters

ClearSpec == ClearInit /\ [][ClearNext]_vars

(* The specification of early calls: updateFilters is called with leaf,  *)
(* family and string arguments before a catalogue is on display, and     *)
(* with trial ids of the catalogue afterwards                            *)

\* [category, facet] of an array category and [category, facet, subfacet]
EarlyLeafArgs ==
    { ArrayArg(<< FlatCat, FlatLabel >>) }
        \cup { ArrayArg(<< NestedCat, Family, l >>) : l \in SubLabels }

\* [category, facet] of a family
EarlyFamilyArgs == { ArrayArg(<< NestedCat, Family >>) }

\* a trial id
EarlyStringArgs == { StringArg(TrialIdPool[1]) }

EarlyNext ==
    \/ \E c \in Catalogues : CatalogueArrives(c)
    \/ ReconcileEffect
    \/ facets = << >> /\ \E v \in EarlyLeafArgs : UpdateFilters("facets", v)
    \/ facets = << >> /\ \E v \in EarlyFamilyArgs : UpdateFilters("facets", v)
    \/ facets = << >> /\ \E v \in EarlyStringArgs : UpdateFilters("trial_ids", v)
    \/ \E c \in Displayed : \E v \in TrialIdArgs(c) : UpdateFilters("trial_ids", v)

EarlySpec == ProviderInit /\ [][EarlyNext]_vars

----------------------------------------------------------------------------
(* The trial table: usePaginatedTrials *)

\* const TRIALS_PER_PAGE = 10
TRIALS_PER_PAGE == 10

\* load more is offered while fewer than MaxSize pages are asked for: two
\* more than the pages that hold the trials of the largest listing
MaxSize == (MaxTrials \div TRIALS_PER_PAGE) + 3

\* the trial-id selections of the trial view
TrialIdSets == { << >>, << TrialIdPool[1] >> }

\* the number of trials that match the current filter
matching == trialTotal[filters.trial_ids]

\* the number of trials the server lists on page pageIndex of `total`
ItemsOnPage(pageIndex, total) ==
    IF total - TRIALS_PER_PAGE * pageIndex <= 0 THEN 0
    ELSE IF total - TRIALS_PER_PAGE * pageIndex >= TRIALS_PER_PAGE
         THEN TRIALS_PER_PAGE
         ELSE total - TRIALS_PER_PAGE * pageIndex

\* getTrialURL(pageIndex, previousPageData) is not null; previousPageData
\* is <<>> (null) or <<number of items of the page before>>
HasKey(previousPageData) ==
    ~ (previousPageData # << >> /\ previousPageData[1] = 0)

RECURSIVE LoadFrom(_, _, _, _)
\* useSWRInfinite: the pages pageIndex .. n-1 in turn, up to the first page
\* whose key is null
LoadFrom(pageIndex, previousPageData, n, total) ==
    IF pageIndex >= n \/ ~ HasKey(previousPageData) THEN << >>
    ELSE << ItemsOnPage(pageIndex, total) >> \o
         LoadFrom(pageIndex + 1, << ItemsOnPage(pageIndex, total) >>, n, total)

RECURSIVE SumOf(_)
SumOf(counts) == IF Len(counts) = 0 THEN 0 ELSE counts[1] + SumOf(Tail(counts))

\* trials = data?.flatMap(page => page._items): <<>> or <<trials.length>>
trials == IF pages = << >> THEN << >> ELSE << SumOf(pages[1].counts) >>

\* trials && (trials.length === 0 || trials.length % TRIALS_PER_PAGE !== 0)
allLoaded ==
    IF trials = << >> THEN FALSE
    ELSE trials[1] = 0 \/ trials[1] % TRIALS_PER_PAGE # 0

\* isValidating: the data at hand is not that of the current key and size
isLoading ==
    IF pages = << >> THEN TRUE
    ELSE pages[1].ids # filters.trial_ids \/ pages[1].size # size

\* the effect runs after mount and after a render that changed trial_ids
TrialEffectPending == trialDeps # << filters.trial_ids >>

\* an effect that leaves the size as it is
SizeKept == size

\* setSize(1)
SizeReset == 1

\* React.useEffect(() => { setSize(1) }, [filters.trial_ids, setSize]);
\* lastOp.n is the size before the run
TrialEffect ==
    /\ TrialEffectPending
    /\ size' = SizeReset
    /\ trialDeps' = << filters.trial_ids >>
    /\ lastOp' = [op |-> "trial-effect", n |-> size]
    /\ UNCHANGED << filters, pages, trialTotal, loadsSince >>
    /\ UNCHANGED << tableVars, providerVars, downloadVars, legacyVars >>

\* useSWRInfinite delivers the pages of the current key and size
TrialsArrive ==
    /\ isLoading
    /\ pages' = << [ ids |-> filters.trial_ids, size |-> size,
                     counts |-> LoadFrom(0, << >>, size, matching) ] >>
    /\ lastOp' = Op("trials")
    /\ UNCHANGED << filters, size, trialTotal, trialDeps, loadsSince >>
    /\ UNCHANGED << tableVars, providerVars, downloadVars, legacyVars >>

\* the "load more trials" button is rendered and enabled
LoadMoreOffered == trials # << >> /\ ~ allLoaded /\ ~ isLoading

\* loadMore: setSize(size => size + 1)
LoadMore ==
    /\ LoadMoreOffered
    /\ ~ TrialEffectPending
    /\ size < MaxSize
    /\ size' = size + 1
    /\ loadsSince' = loadsSince + 1
    /\ lastOp' = Op("load-more")
    /\ UNCHANGED << filters, pages, trialTotal, trialDeps >>
    /\ UNCHANGED << tableVars, providerVars, downloadVars, legacyVars >>

\* the filter provider writes another trial_ids; the new key has no data
\* yet, or the data of the key before is still returned
TrialFilterChange(ids) ==
    /\ ~ TrialEffectPending
    /\ ids # filters.trial_ids
    /\ filters' = [filters EXCEPT !.trial_ids = ids]
    /\ pages' \in { << >>, pages }
    /\ loadsSince' = 0
    /\ lastOp' = Op("trial-filter")
    /\ UNCHANGED << size, trialTotal, trialDeps >>
    /\ UNCHANGED << tableVars, providerVars, downloadVars, legacyVars >>

\* the trial view mounts with no trial id selected
TrialInit ==
    /\ filters = [trial_ids |-> << >>, facets |-> << >>]
    /\ trialTotal \in [TrialIdSets -> 0 .. MaxTrials]
    /\ size = 1
    /\ pages = << >>
    /\ trialDeps = << >>
    /\ loadsSince = 0
    /\ state = InitialState
    /\ propsFiles = << >>
    /\ lastOp = Op("mount")
    /\ newFacets = << >>
    /\ facets = << >>
    /\ fpDeps = << >>
    /\ pruneWrites = 0
    /\ openDialog = FALSE
    /\ manifests = {}
    /\ issued = 0
    /\ saves = 0
    /\ queryPage = 0
    /\ tablePage = 0
    /\ prevPage = << >>
    /\ data = << >>
    /\ headers = InitialHeaders
    /\ axiosCanceller = << >>
    /\ requests = {}
    /\ cancelled = {}
    /\ deps = << >>
    /\ selectedFileIds = << >>
    /\ rehomeDue = FALSE

(* The specification of the trial table *)

TrialNext ==
    \/ TrialEffect
    \/ TrialsArrive
    \/ LoadMore
    \/ \E ids \in TrialIdSets : TrialFilterChange(ids)

TrialSpec == TrialInit /\ [][TrialNext]_vars

(* The specification of loading more under one filter: the effect, the   *)
(* fetch and the button are each taken when they stay possible           *)

TrialLoadNext ==
    \/ TrialEffect
    \/ TrialsArrive
    \/ LoadMore

TrialLoadSpec ==
    /\ TrialInit
    /\ [][TrialLoadNext]_vars
    /\ WF_vars(TrialEffect)
    /\ WF_vars(TrialsArrive)
    /\ WF_vars(LoadMore)

----------------------------------------------------------------------------
(* Properties of the fetch controller *)

\* the effect has run since filters and sort header took their present values
EffectSawFilters ==
    /\ deps # << >>
    /\ deps[1].filters = filters
    /\ deps[1].sortHeader = sortHeader

\* this step is a run of the fetch effect
EffectRuns == deps' # deps

\* this step writes a fetch result to the table
Commits ==
    \/ lastOp'.op = "commit"
    \/ tablePage' # tablePage
    \/ (data' # data /\ data' # << >>)

\* C1: after a change of the filter set or of the active sort header, the
\* next fetch result committed to the table sets the table page to 0.
\* Stated in the reading kindest to the code: only a commit made after the
\* effect has run on the changed filters and sort header is held to it.
C1_NextCommitRehomes ==
    [][ (rehomeDue /\ EffectSawFilters /\ lastOp'.op = "commit")
            => tablePage' = 0 ]_vars

\* C2: only the result of the last-issued request is ever committed (a step
\* that writes the table page or the data settles the request that
\* axiosCanceller holds), and the settling of a cancelled request writes
\* neither table page nor data nor query page.
C2_OnlyLastIssuedCommits ==
    [][ /\ Commits =>
              \E r \in requests :
                  /\ requests' = requests \ { r }
                  /\ axiosCanceller = << r.id >>
                  /\ cancelled' = cancelled
        /\ (\E id \in cancelled : id \notin cancelled') =>
              UNCHANGED << tablePage, data, queryPage >> ]_vars

\* C2 witness: a result was committed while a superseded request had not
\* yet settled
C2_Witness == lastOp.op = "commit" /\ cancelled # {} /\ data # << >>

\* C3: a request issued for an earlier generation never has its result
\* committed once the filters or the sort header have changed, the stale-echo
\* branch included.  Held only to commits made after the effect has run on
\* the present filters and sort header.
C3_NoEarlierGenerationCommit ==
    [][ (EffectSawFilters /\ lastOp'.op = "commit")
            => (data'[1].filters = filters /\ data'[1].sort = sortHeader)
      ]_vars

C6_OutOfRangeResets ==
    [][ /\ \A r \in requests, total \in Totals :
              Succeed(r, total) =>
                  IF r.page * 15 > total
                  THEN queryPage' = 0 /\ UNCHANGED << tablePage, data >>
                  ELSE /\ tablePage' = r.page
                       /\ data' # << >>
                       /\ data'[1].page = r.page
                       /\ data'[1].total = total
                       /\ data'[1].filters = r.filters
                       /\ UNCHANGED queryPage
        /\ lastOp'.op = "reset" => (queryPage' = 0 /\ EffectPending')
        /\ (EffectPending /\ queryPage = 0 /\ ~ EffectRuns) =>
              (EffectPending' /\ queryPage' = 0)
        /\ (EffectRuns /\ queryPage = 0) =>
              \E r \in requests' \ requests :
                  /\ r.page = 0
                  /\ r.filters = filters
                  /\ r.sort = sortHeader
                  /\ axiosCanceller' = << r.id >>
      ]_vars

\* C6 witness: page 2 was requested, the response reported fewer than 30
\* files, and the query page is back at 0 with the effect due
C6_Witness ==
    /\ lastOp.op = "reset"
    /\ prevPage = << 2 >>
    /\ queryPage = 0
    /\ data = << >>
    /\ EffectPending

\* C10: a run of the effect with the query page equal to a nonzero previous
\* page sets the query page to 0 and the previous page to the old query
\* page, and writes nothing else.
C10_StaleEchoOnlyResets ==
    [][ (EffectRuns /\ prevPage = << queryPage >> /\ queryPage # 0) =>
            /\ queryPage' = 0
            /\ prevPage' = << queryPage >>
            /\ UNCHANGED << data, tablePage, requests, cancelled,
                            axiosCanceller, filters, headers,
                            selectedFileIds >> ]_vars

\* C10 witness: the stale-echo branch has run and left the displayed data
C10_Witness ==
    /\ lastOp.op = "echo"
    /\ queryPage = 0
    /\ prevPage # << 0 >>
    /\ data # << >>
    /\ requests = {}

\* C11: whenever a new file-listing request is issued, the displayed data
\* is cleared and the request issued before it is cancelled (it can only
\* reject with the cancellation message from then on), so in every state at
\* most one issued request is not cancelled.
C11_OneLiveRequest ==
    /\ [](Cardinality(requests) <= 1)
    /\ [][ \A r \in requests' \ requests :
              /\ data' = << >>
              /\ requests' = { r }
              /\ axiosCanceller' = << r.id >>
              /\ \A q \in requests : q.id \in cancelled'
         ]_vars

\* a second request has been issued while the first was in flight: the first
\* is cancelled, the data cleared
C11_Witness ==
    /\ lastOp.op = "fetch"
    /\ Cardinality(requests) = 1
    /\ cancelled # {}
    /\ data = << >>
    /\ tablePage # queryPage

\* a promise of a file-listing request rejects in this step
Rejects ==
    \/ \E r \in requests : Fail(r)
    \/ \E id \in cancelled : RejectCancelled(id)

\* C12: a failed file-listing request, cancelled or not, never changes the
\* displayed data, the table page or the query page and never causes a
\* retry (no request is issued and no effect run is set off); console.error
\* is called for the failures other than cancellations and only for them.
C12_FailureChangesNothing ==
    [][ /\ Rejects =>
              /\ UNCHANGED << data, tablePage, queryPage >>
              /\ requests' \subseteq requests
              /\ cancelled' \subseteq cancelled
              /\ EffectPending' = EffectPending
        /\ (\E id \in cancelled : RejectCancelled(id)) => lastOp'.op # "error"
        /\ (\E r \in requests : Fail(r)) => lastOp'.op = "error"
        /\ lastOp'.op = "error" => \E r \in requests : requests' = requests \ { r }
      ]_vars

\* a request for page 2 failed for good: the query page stays 2, nothing is
\* in flight and no effect run is waiting
C12_Witness ==
    /\ lastOp.op = "error"
    /\ queryPage = 2
    /\ requests = {}
    /\ cancelled = {}
    /\ ~ EffectPending

\* the positions of the active headers
ActiveHeaders(hs) == { i \in 1 .. Len(hs) : hs[i].active }

Flipped(direction) == IF direction = "desc" THEN "asc" ELSE "desc"

\* C14: after any sequence of header clicks exactly one header is active; a
\* click on the active header flips its direction between desc and asc and
\* keeps it active; a click on an inactive header makes it the only active
\* header, with direction desc.
C14_OneActiveHeader ==
    /\ [](Cardinality(ActiveHeaders(headers)) = 1)
    /\ [][ \A i \in 1 .. Len(headers) : OnClickHeader(headers[i].key) =>
              /\ ActiveHeaders(headers') = { i }
              /\ headers'[i].direction =
                    IF headers[i].active THEN Flipped(headers[i].direction)
                    ELSE "desc"
              /\ \A j \in 1 .. Len(headers) : headers'[j].key = headers[j].key
         ]_vars

\* the initially active header was flipped to asc, then another header was
\* clicked and is the only active one
C14_Witness ==
    /\ lastOp.op = "header"
    /\ ActiveHeaders(headers) = { 2 }
    /\ headers[2].direction = "desc"
    /\ headers[Len(headers)].direction = "asc"

\* the table shows the listing of the current filters, sort and query page
Settled ==
    IF data = << >> THEN FALSE
    ELSE /\ data[1].filters = filters
         /\ data[1].sort = sortHeader
         /\ data[1].page = queryPage
         /\ tablePage = queryPage

\* the user has just changed the filters, the page or the sort
UserChanged == lastOp.op \in { "filters", "page", "header" }

\* C21: after any filter, sort or page change, if every request that is not
\* cancelled succeeds, the table comes to show the listing fetched with the
\* current filters, sort header and query page, with the table page equal
\* to the query page (unless the user changes something again first); the
\* chain of resets and refetches does not go on for ever, and it never rests
\* with the data cleared and no request in flight.
C21_EventuallySettled ==
    /\ (~ Settled) ~> (Settled \/ UserChanged)
    /\ []((data = << >> /\ requests = {}) => EffectPending)
    /\ []((~ EffectPending /\ requests = {}) => Settled)

\* the listing of page 0 under a trial-id filter is on display after the
\* query page was reset, and nothing is left to run
C21_Witness ==
    /\ Settled
    /\ lastOp.op = "commit"
    /\ queryPage = 0
    /\ filters.trial_ids # << >>
    /\ cancelled = {}
    /\ requests = {}
    /\ ~ EffectPending

----------------------------------------------------------------------------
(* Properties of the batch-download button *)

\* C9: the download button is disabled exactly when no id is selected, and
\* Clear Selection leaves the selection empty and the button disabled.
C9_ClearDisablesDownload ==
    /\ [](DownloadDisabled <=>
              { selectedFileIds[i] : i \in 1 .. Len(selectedFileIds) } = {})
    /\ [][ lastOp'.op = "clearIds" =>
              (selectedFileIds' = << >> /\ DownloadDisabled') ]_vars

\* C9 witness: three rows were selected and Clear Selection was clicked
C9_Witness ==
    /\ lastOp = [op |-> "clearIds", n |-> 3]
    /\ selectedFileIds = << >>
    /\ DownloadDisabled

\* the ids of a selection, as a set
IdSet(ids) == { ids[i] : i \in 1 .. Len(ids) }

\* C13: a row click toggles the row's id in the selection: an absent id is
\* added, a present id is removed, every other id is kept; so a selection
\* never holds an id twice, and clicking a row twice gives back the set of
\* ids selected before.
C13_RowClickToggles ==
    /\ [](Cardinality(IdSet(selectedFileIds)) = Len(selectedFileIds))
    /\ [](\A id \in ClickableRows :
            IdSet(NewSelectedFileIds(
                    NewSelectedFileIds(selectedFileIds, id), id))
                = IdSet(selectedFileIds))
    /\ [][ \A id \in ClickableRows : OnClickRow(id) =>
              /\ (id \in IdSet(selectedFileIds')) = (id \notin IdSet(selectedFileIds))
              /\ IdSet(selectedFileIds') \ { id } = IdSet(selectedFileIds) \ { id }
         ]_vars

\* a click on a selected row took it out of a selection of three
C13_Witness ==
    /\ lastOp = [op |-> "row", n |-> 3]
    /\ Len(selectedFileIds) = 2

\* C15: each click on "Download Filelist.tsv" issues exactly one manifest
\* request, carrying all the ids selected at that moment; a request is issued
\* by such a click only, and a failed request saves no file and issues no
\* further request.
C15_OneManifestPerClick ==
    [][ /\ ClickDownloadFilelist =>
              \E m \in manifests' :
                  /\ m \notin manifests
                  /\ manifests' = manifests \cup { m }
                  /\ m.ids = selectedFileIds
                  /\ issued' = issued + 1
        /\ (issued' # issued \/ manifests' \ manifests # {}) =>
              lastOp'.op = "download"
        /\ saves' # saves => lastOp'.op = "saved"
        /\ \A m \in manifests : ManifestFails(m) =>
              /\ saves' = saves
              /\ issued' = issued
              /\ manifests' = manifests \ { m }
      ]_vars

\* the only manifest request, for two selected files, failed: nothing was
\* saved and no request is in flight
C15_Witness ==
    /\ lastOp.op = "manifest-error"
    /\ Len(selectedFileIds) = 2
    /\ issued = 1
    /\ saves = 0
    /\ manifests = {}

----------------------------------------------------------------------------
(* Properties of the filter provider *)

\* what the catalogue reports on the facet a string refers to: for
\* category|facet the item of that label in the category's list, for
\* category|facet|subfacet the item of that label in the family's list;
\* <<>> when the catalogue has no such item
ReferencedInfo(nf, facetString) ==
    LET parts == Split(facetString)
        cat == parts[1]
        listed ==
            IF cat \notin DOMAIN nf.facets \/ Len(parts) < 2 THEN << >>
            ELSE IF nf.facets[cat].isArray
                 THEN IF Len(parts) = 2 THEN nf.facets[cat].items ELSE << >>
                 ELSE IF Len(parts) = 3 /\ parts[2] \in DOMAIN nf.facets[cat].dict
                      THEN nf.facets[cat].dict[parts[2]]
                      ELSE << >>
        label == parts[Len(parts)]
    IN  SelectSeq(listed, LAMBDA info : info.label = label)

CategoryAbsent(nf, facetString) == Split(facetString)[1] \notin DOMAIN nf.facets

\* C4: after a catalogue refresh every previously selected facet string,
\* two-part and three-part alike, is retained if and only if the item it
\* refers to reports a count greater than 0 in the new catalogue, and is
\* retained when its category is absent from the new catalogue.
C4_RetainedIffPositiveCount ==
    [][ (ReconcileEffect /\ newFacets # << >>) =>
            \A i \in 1 .. Len(filters.facets) :
                LET f == filters.facets[i]
                    info == ReferencedInfo(newFacets[1], f)
                IN  /\ CategoryAbsent(newFacets[1], f) =>
                            Includes(filters'.facets, f)
                    /\ info # << >> =>
                            (Includes(filters'.facets, f) <=> info[1].count > 0)
      ]_vars

\* small is big with at least one member taken out, the rest in order
IsProperSubSeq(small, big) ==
    /\ Len(small) < Len(big)
    /\ small = SelectSeq(big, LAMBDA f : Includes(small, f))

\* C7: the reconciliation loop terminates: every pruning write leaves a
\* proper sub-sequence of the facet selection before it, so there are at most
\* as many pruning writes as selected strings, and under any sequence of
\* catalogue responses the filter set is eventually never written again with
\* a different value.
C7_ReconciliationTerminates ==
    /\ [][ (ReconcileEffect /\ filters' # filters) =>
              /\ IsProperSubSeq(filters'.facets, filters.facets)
              /\ pruneWrites' + Len(filters'.facets) <= MaxFacetSel ]_vars
    /\ <>[][ filters' = filters ]_vars

\* two pruning writes, each after its own catalogue, and then an effect run
\* that found nothing to prune and leaves no run waiting
C7_Witness ==
    /\ pruneWrites = 2
    /\ lastOp = [op |-> "reconcile", n |-> 0]
    /\ ~ ProviderEffectPending
    /\ filters.facets = << >>

\* the count the catalogue reports for a leaf checkbox
LeafCount(c, v) == ReferencedInfo(c, Join(v.parts))[1].count

\* C8: toggling a leaf facet whose count in the displayed catalogue is 0
\* leaves the stored filter set unchanged: the string is not added.
C8_ZeroCountToggleIsNoOp ==
    [][ \A c \in Displayed : \A v \in LeafArgs(c) :
            ( /\ LeafCount(c, v) = 0
              /\ ~ Includes(filters.facets, Join(v.parts))
              /\ UpdateFilters("facets", v) ) => filters' = filters
      ]_vars

\* C16: after a catalogue refresh every selected filter whose facet is no
\* longer in the catalogue (its facet key or its sub-facet label is gone
\* while its category is still listed) is dropped from the filter set.
C16_VanishedFacetDropped ==
    [][ (ReconcileEffect /\ newFacets # << >>) =>
            \A i \in 1 .. Len(filters.facets) :
                LET f == filters.facets[i]
                IN  ( /\ ~ CategoryAbsent(newFacets[1], f)
                      /\ ReferencedInfo(newFacets[1], f) = << >> )
                        => ~ Includes(filters'.facets, f)
      ]_vars

\* the filter names a sub-facet of the family [category, facet]
InFamily(f, family) ==
    LET parts == Split(f)
    IN  Len(parts) = 3 /\ << parts[1], parts[2] >> = family

\* the strings of the positive-count sub-facets of a family in catalogue c
PositiveOfFamily(c, family) ==
    LET infos == c.facets[family[1]].dict[family[2]]
    IN  { Join(<< family[1], family[2], infos[i].label >>) :
            i \in { j \in 1 .. Len(infos) : infos[j].count > 0 } }

\* C17: a family-level toggle acts on the members of that family only: if
\* not every positive-count sub-facet of the family is selected, afterwards
\* exactly the filters selected before plus all positive-count sub-facets of
\* the family are selected; if all are selected, afterwards every filter of
\* the family is removed; the filters of other families, also of families
\* whose name begins with the same text, and the other filter key stay as
\* they are.
C17_FamilyToggleStaysInFamily ==
    [][ \A c \in Displayed : \A v \in FamilyArgs(c) :
            UpdateFilters("facets", v) =>
                LET family == v.parts
                    positive == PositiveOfFamily(c, family)
                    others(fs) ==
                        SelectSeq(fs, LAMBDA f : ~ InFamily(f, family))
                IN  /\ filters'.trial_ids = filters.trial_ids
                    /\ others(filters'.facets) = others(filters.facets)
                    /\ IF positive \subseteq IdSet(filters.facets)
                       THEN \A i \in 1 .. Len(filters'.facets) :
                                ~ InFamily(filters'.facets[i], family)
                       ELSE IdSet(filters'.facets) =
                                IdSet(filters.facets) \cup positive
      ]_vars

\* C18: a reconciliation write never adds a filter and never changes the
\* trial-id selection: after each pruning step the facet selection is the
\* selection before it with some strings taken out, the rest in the same
\* order, and trial_ids is the same.
C18_PruningOnlyRemoves ==
    [][ ReconcileEffect =>
            /\ filters'.trial_ids = filters.trial_ids
            /\ IdSet(filters'.facets) \subseteq IdSet(filters.facets)
            /\ filters'.facets =
                  SelectSeq(filters.facets,
                            LAMBDA f : f \in IdSet(filters'.facets))
      ]_vars

\* a pruning step took one of two selected facets out and left the selected
\* trial id in place
C18_Witness ==
    /\ lastOp = [op |-> "reconcile", n |-> 1]
    /\ Len(filters.facets) = 1
    /\ filters.trial_ids = << TrialIdPool[1] >>

----------------------------------------------------------------------------
(* Properties of the trial table *)

\* C19: whenever the trial-id filter changes, the number of pages asked for
\* is set back to 1: the effect run that follows the change sets it to 1
\* whatever it was, so the size is 1 plus the load-more clicks made under
\* the current filter, and until the first such click the trials on display
\* are the first page of the current filter.
C19_FilterChangeResetsSize ==
    /\ [][ TrialEffect => size' = 1 ]_vars
    /\ [](~ TrialEffectPending => size = 1 + loadsSince)
    /\ []((~ TrialEffectPending /\ ~ isLoading /\ loadsSince = 0) =>
            pages = << [ ids |-> filters.trial_ids, size |-> 1,
                         counts |-> << ItemsOnPage(0, matching) >> ] >>)

\* three pages were asked for when the filter changed: the effect run that
\* followed has set the size back to 1
C19_Witness ==
    /\ lastOp = [op |-> "trial-effect", n |-> 3]
    /\ size = 1
    /\ filters.trial_ids # << >>
    /\ ~ TrialEffectPending

\* a page has come back empty: every later key is null, so the data stays
\* as it is however often load more is used
Exhausted ==
    IF pages = << >> THEN FALSE
    ELSE \E i \in 1 .. Len(pages[1].counts) : pages[1].counts[i] = 0

\* C20: for every number of matching trials, 0 and the exact multiples of
\* the page size included, repeated use of load more leads to a state where
\* allLoaded is true: allLoaded is true at the latest when a page has come
\* back empty, since nothing is loaded after that; allLoaded is true only
\* when every matching trial is fetched; and no page is requested after an
\* empty one.
C20_LoadMoreReachesAllLoaded ==
    /\ [](Exhausted => allLoaded)
    /\ []((allLoaded /\ ~ isLoading) => trials = << matching >>)
    /\ [](pages # << >> =>
            \A i \in 1 .. Len(pages[1].counts) - 1 : pages[1].counts[i] # 0)

----------------------------------------------------------------------------
(* The client-side file table: class FileTable *)

SortKeys ==
    { NAME_KEY, TRIAL_ID_KEY, EXPERIMENTAL_STRATEGY_KEY, NUMBER_OF_CASES_KEY,
      DATA_FORMAT_KEY, SIZE_KEY }

\* the i-th of n files; the columns order the files in different ways and
\* some hold equal values
FileOf(i, n) ==
    [ _id |-> i,
      file_name |-> i,
      trial_name |-> i % 2,
      experimental_strategy |-> i % 3,
      number_of_samples |-> (i * 7) % 5,
      data_format |-> 0,
      file_size |-> n - i ]

\* this.props.files: a fixed list of n files
FilesOf(n) == [ i \in 1 .. n |-> FileOf(i, n) ]

\* _.orderBy(files, key, direction): a stable sort by one column
OrderBy(fs, key, direction) ==
    LET before(j, i) ==
            \/ IF direction = "asc" THEN fs[j][key] < fs[i][key]
                                     ELSE fs[j][key] > fs[i][key]
            \/ fs[j][key] = fs[i][key] /\ j < i
        rank(i) == Cardinality({ j \in 1 .. Len(fs) : before(j, i) }) + 1
    IN  [ r \in 1 .. Len(fs) |->
            fs[CHOOSE i \in 1 .. Len(fs) : rank(i) = r] ]

\* Array.prototype.slice(begin, end) with 0 <= begin <= end
Slice(s, begin, end) ==
    LET last == IF end < Len(s) THEN end ELSE Len(s)
    IN  IF begin >= last THEN << >> ELSE SubSeq(s, begin + 1, last)

\* the rows of the table body
TableRows ==
    Slice(OrderBy(propsFiles, state.sortBy, state.sortDirection),
          state.page * state.rowsPerPage,
          state.page * state.rowsPerPage + state.rowsPerPage)

\* rowsPerPageOptions={[5, 10, 25]}
rowsPerPageOptions == { 5, 10, 25 }

\* the index of the last page TablePagination offers for count rows
LastPage(count, rowsPerPage) ==
    IF count = 0 THEN 0 ELSE (count + rowsPerPage - 1) \div rowsPerPage - 1

\* the pages TablePagination's back and next buttons hand to onChangePage:
\* back is disabled on page 0, next on and after the last page
OfferedPages ==
    { p \in { state.page - 1, state.page + 1 } :
        \/ p = state.page - 1 /\ state.page # 0
        \/ p = state.page + 1
            /\ state.page < LastPage(Len(propsFiles), state.rowsPerPage) }

\* handleChangePage(event, page)
handleChangePage(page) ==
    /\ page \in OfferedPages
    /\ state' = [state EXCEPT !.page = page]
    /\ lastOp' = Op("handleChangePage")
    /\ UNCHANGED << filters, tableVars, providerVars, downloadVars,
                    trialVars, propsFiles >>

\* handleChangeRowsPerPage(event), event.target.value one of the options
handleChangeRowsPerPage(value) ==
    /\ value \in rowsPerPageOptions
    /\ value # state.rowsPerPage
    /\ state' = [state EXCEPT !.rowsPerPage = value]
    /\ lastOp' = Op("handleChangeRowsPerPage")
    /\ UNCHANGED << filters, tableVars, providerVars, downloadVars,
                    trialVars, propsFiles >>

\* handleChangeSorting(sortBy)
handleChangeSorting(sortBy) ==
    LET isAsc == state.sortBy = sortBy /\ state.sortDirection = "asc"
    IN  /\ state' = [state EXCEPT !.sortBy = sortBy,
                                  !.sortDirection =
                                      IF isAsc THEN "desc" ELSE "asc"]
        /\ lastOp' = Op("handleChangeSorting")
        /\ UNCHANGED << filters, tableVars, providerVars, downloadVars,
                        trialVars, propsFiles >>

\* the table is constructed with a non-empty list of files
LegacyInit ==
    /\ state = InitialState
    /\ propsFiles \in { FilesOf(n) : n \in 1 .. MaxFiles }
    /\ lastOp = Op("mount")
    /\ filters = [trial_ids |-> << >>, facets |-> << >>]
    /\ queryPage = 0
    /\ tablePage = 0
    /\ prevPage = << >>
    /\ data = << >>
    /\ headers = InitialHeaders
    /\ axiosCanceller = << >>
    /\ requests = {}
    /\ cancelled = {}
    /\ deps = << >>
    /\ selectedFileIds = << >>
    /\ rehomeDue = FALSE
    /\ newFacets = << >>
    /\ facets = << >>
    /\ fpDeps = << >>
    /\ pruneWrites = 0
    /\ openDialog = FALSE
    /\ manifests = {}
    /\ issued = 0
    /\ saves = 0
    /\ size = 1
    /\ pages = << >>
    /\ trialTotal = << >>
    /\ trialDeps = << >>
    /\ loadsSince = 0

LegacyNext ==
    \/ \E p \in 0 .. MaxFiles : handleChangePage(p)
    \/ \E v \in rowsPerPageOptions : handleChangeRowsPerPage(v)
    \/ \E k \in SortKeys : handleChangeSorting(k)

LegacySpec == LegacyInit /\ [][LegacyNext]_vars

----------------------------------------------------------------------------
(* The frame of the selection *)

\* a step of the fetch controller: an effect run, a response, a failure,
\* or a change of filters, page or sort
ControllerStep ==
    \/ RunEffect
    \/ \E r \in requests, total \in FrameTotals : Succeed(r, total)
    \/ \E r \in requests : Fail(r)
    \/ \E id \in cancelled : RejectCancelled(id)
    \/ \E f \in TableFilterSets : FiltersChange(f)
    \/ \E p \in FramePages : OnChangePage(p)
    \/ \E key \in ClickKeys : OnClickHeader(key)

\* C22: the selected id list changes only in a row click, a call of the
\* table's selection setter or 'Clear Selection'; filter, sort and page
\* changes, effect runs, fetch commits, out-of-range page resets and fetch
\* failures leave it as it is.
C22_SelectionFrame ==
    [][ /\ (selectedFileIds' # selectedFileIds
              => lastOp'.op \in { "row", "setter", "clearIds" })
        /\ (ControllerStep => selectedFileIds' = selectedFileIds)
        /\ (lastOp'.op \in { "filters", "page", "header", "commit", "reset",
                             "error", "cancelled" }
              => selectedFileIds' = selectedFileIds) ]_vars

\* a listing of ten files was committed while the selection still holds
\* the first file of the second page, which is not displayed
C22_Witness ==
    /\ lastOp.op = "commit"
    /\ data # << >>
    /\ data[1].total = 10
    /\ Includes(selectedFileIds, page_size + 1)
    /\ (page_size + 1) \notin DisplayedRows

----------------------------------------------------------------------------
(* hasFilters and clearFilters *)

\* C23: hasFilters is true exactly when trial_ids or facets holds a
\* non-empty list; clearFilters leaves every filter key undefined, so that
\* hasFilters is false after it, and it does not write the page query
\* parameter.
C23_ClearLeavesNoFilters ==
    /\ [](hasFilters <=> (\E k \in DOMAIN filters : Len(filters[k]) >= 1))
    /\ [][ClearFilters =>
            /\ \A k \in DOMAIN filters : filters'[k] = << >>
            /\ ~ hasFilters'
            /\ queryPage' = queryPage]_vars

\* filters were cleared on a page other than the first while a trial id and
\* a facet string were chosen
C23_Witness ==
    /\ lastOp.op = "clear"
    /\ lastOp.n >= 2
    /\ queryPage > 0
    /\ ~ hasFilters
    /\ facets # << >>

----------------------------------------------------------------------------
(* updateFilters before the first catalogue *)

\* a call of updateFilters with a leaf, a family or a string argument
EarlyCall ==
    \/ \E v \in EarlyLeafArgs \cup EarlyFamilyArgs : UpdateFilters("facets", v)
    \/ \E v \in EarlyStringArgs : UpdateFilters("trial_ids", v)

\* C24: while facets is undefined (no catalogue has been put on display),
\* every updateFilters call, with a leaf, a family or a string argument,
\* leaves the filters of the query-param store as they are; facets stays
\* undefined until the effect runs with a catalogue received.
C24_UpdateBeforeCatalogueIsNoOp ==
    /\ [][(facets = << >> /\ EarlyCall) =>
            /\ filters' = filters
            /\ facets' = facets
            /\ newFacets' = newFacets
            /\ lastOp'.op = "update:skip"]_vars
    /\ [][(facets = << >> /\ facets' # << >>) =>
            (newFacets # << >> /\ facets' = newFacets)]_vars
    /\ [](lastOp.op = "update:skip" => facets = << >>)

\* updateFilters was called before any catalogue was on display, with a
\* trial id chosen in the URL: the call left it chosen
C24_Witness ==
    /\ lastOp.op = "update:skip"
    /\ facets = << >>
    /\ filters.trial_ids = << TrialIdPool[1] >>
    /\ Len(filters.facets) = MaxFacetSel

----------------------------------------------------------------------------
(* Properties of the client-side file table *)

\* C25: for a fixed non-empty file list, after any sequence of page
\* changes, rows-per-page changes and sort changes the page is within range
\* (page * rowsPerPage < number of files) and the displayed slice is not
\* empty; a sort click on the current column flips asc to desc and any
\* other sort click sets the direction asc.
C25_PageWithinRange ==
    /\ [](state.page * state.rowsPerPage < Len(propsFiles))
    /\ [](TableRows # << >>)
    /\ [][\A k \in SortKeys : handleChangeSorting(k) =>
            /\ state'.sortBy = k
            /\ state'.sortDirection =
                  IF state.sortBy = k /\ state.sortDirection = "asc"
                  THEN "desc" ELSE "asc"
            /\ state'.page = state.page
            /\ state'.rowsPerPage = state.rowsPerPage]_vars

\* the part of C25 about sorting, on its own
LegacySortFlips ==
    [][\A k \in SortKeys : handleChangeSorting(k) =>
            /\ state'.sortBy = k
            /\ state'.sortDirection =
                  IF state.sortBy = k /\ state.sortDirection = "asc"
                  THEN "desc" ELSE "asc"]_vars

\* the page changes keep the page within range as long as the number of
\* rows per page is not changed
LegacyPageChangeKeepsRange ==
    [][(\E p \in 0 .. MaxFiles : handleChangePage(p)) =>
            (state.page * state.rowsPerPage < Len(propsFiles)
                => state'.page * state'.rowsPerPage < Len(propsFiles))]_vars

====
